---------------------------- MODULE Spec2Model ----------------------------
(***************************************************************************)
(* Model of the robot-control node (code/main_robot.py): the serial frame  *)
(* reassembly in the control loop, command dispatch, the mode state        *)
(* machine, the collision guard, the calibration sequence and the          *)
(* line-following controller.                                              *)
(*                                                                         *)
(* Text is modelled as sequences of one-character strings, so that         *)
(* strip(), upper(), split() and split('\n') are computed as the code      *)
(* computes them.  Responses are TLA+ strings spelled as the code's        *)
(* f-strings spell them.                                                   *)
(***************************************************************************)
EXTENDS Integers, Sequences, FiniteSets, TLC

----------------------------------------------------------------------------
(* Characters and the string methods the code uses                         *)

NL == "\n"

Whitespace == {" ", "\t", "\r", NL}

LowerLetters ==
    <<"a","b","c","d","e","f","g","h","i","j","k","l","m",
      "n","o","p","q","r","s","t","u","v","w","x","y","z">>

UpperLetters ==
    <<"A","B","C","D","E","F","G","H","I","J","K","L","M",
      "N","O","P","Q","R","S","T","U","V","W","X","Y","Z">>

Digits == <<"0","1","2","3","4","5","6","7","8","9">>

\* str.upper() on one character
UpperChar(c) ==
    IF \E i \in 1..Len(LowerLetters) : LowerLetters[i] = c
    THEN UpperLetters[CHOOSE i \in 1..Len(LowerLetters) : LowerLetters[i] = c]
    ELSE c

\* str.lower() on one character (used to build mixed-case inputs)
LowerChar(c) ==
    IF \E i \in 1..Len(UpperLetters) : UpperLetters[i] = c
    THEN LowerLetters[CHOOSE i \in 1..Len(UpperLetters) : UpperLetters[i] = c]
    ELSE c

\* str.upper()
Upper(s) == [i \in 1..Len(s) |-> UpperChar(s[i])]

Lower(s) == [i \in 1..Len(s) |-> LowerChar(s[i])]

\* str.strip(): drop leading and trailing whitespace
Strip(s) ==
    LET idx == {i \in 1..Len(s) : s[i] \notin Whitespace}
    IN  IF idx = {} THEN <<>>
        ELSE LET lo == CHOOSE i \in idx : \A j \in idx : i <= j
                 hi == CHOOSE i \in idx : \A j \in idx : i >= j
             IN  SubSeq(s, lo, hi)

\* str.split(): the maximal runs of non-whitespace characters, in order
RECURSIVE SplitFrom(_, _, _)
SplitFrom(s, i, cur) ==
    IF i > Len(s)
    THEN IF cur = <<>> THEN <<>> ELSE <<cur>>
    ELSE IF s[i] \in Whitespace
         THEN IF cur = <<>> THEN SplitFrom(s, i + 1, <<>>)
              ELSE <<cur>> \o SplitFrom(s, i + 1, <<>>)
         ELSE SplitFrom(s, i + 1, Append(cur, s[i]))

Split(s) == SplitFrom(s, 1, <<>>)

\* str.split('\n'): the pieces between newlines, empty pieces included;
\* always at least one piece, the last being what follows the last newline
RECURSIVE SplitLinesFrom(_, _, _)
SplitLinesFrom(s, i, cur) ==
    IF i > Len(s) THEN <<cur>>
    ELSE IF s[i] = NL
         THEN <<cur>> \o SplitLinesFrom(s, i + 1, <<>>)
         ELSE SplitLinesFrom(s, i + 1, Append(cur, s[i]))

SplitLines(s) == SplitLinesFrom(s, 1, <<>>)

HasNewline(s) == \E i \in 1..Len(s) : s[i] = NL

\* the text of a character sequence, as a string
RECURSIVE Str(_)
Str(s) == IF s = <<>> THEN "" ELSE s[1] \o Str(Tail(s))

IsDigit(c) == \E i \in 1..Len(Digits) : Digits[i] = c

DigitVal(c) == (CHOOSE i \in 1..Len(Digits) : Digits[i] = c) - 1

RECURSIVE DigitsVal(_)
DigitsVal(s) ==
    IF s = <<>> THEN 0
    ELSE 10 * DigitsVal(SubSeq(s, 1, Len(s) - 1)) + DigitVal(s[Len(s)])

\* int(token): an optional sign and decimal digits, anything else raises
\* ValueError
IntOk(tok) ==
    LET body == IF tok # <<>> /\ tok[1] \in {"+", "-"} THEN Tail(tok) ELSE tok
    IN  body # <<>> /\ \A i \in 1..Len(body) : IsDigit(body[i])

IntVal(tok) ==
    IF tok[1] = "-" THEN 0 - DigitsVal(Tail(tok))
    ELSE IF tok[1] = "+" THEN DigitsVal(Tail(tok))
    ELSE DigitsVal(tok)


PyBool(b) == IF b THEN "True" ELSE "False"

\* a frame's text from words: the words joined by single spaces
RECURSIVE Join(_)
Join(ws) ==
    IF ws = <<>> THEN <<>>
    ELSE IF Len(ws) = 1 THEN ws[1]
    ELSE ws[1] \o <<" ">> \o Join(Tail(ws))

----------------------------------------------------------------------------
(* Program constants                                                       *)

MODE_MANUAL == 0
MODE_LINE_FOLLOWING == 1
MODE_STOPPED == 2

SPEED_LEVEL_1 == 1000
SPEED_LEVEL_2 == 1250
SPEED_LEVEL_3 == 1500

calibration_speed == 200
calibration_count == 100

\* random.randint(80, 100) in cmd_status
BatteryMin == 80
BatteryMax == 100

\* follow_line
LineThreshold == 700
LineCentre == 2000
LineFarSide == 4000
Kp == 15
Kd == 300

\* a calibrated line reading lies in 0..ReadingMax
ReadingMax == 1000

----------------------------------------------------------------------------
(* Bounds of the model                                                     *)

\* frames the bridge puts on the serial link in one behaviour
MaxSent == 2
\* controller steps in the controller-only specification
MaxFollowSteps == 3

VARIABLES
    current_mode,        \* MODE_MANUAL, MODE_LINE_FOLLOWING or MODE_STOPPED
    line_calibrated,
    current_speed,
    collision_detected,
    left_speed,          \* motors._left_speed
    right_speed,         \* motors._right_speed
    bump_left,           \* bump_sensors.left_is_pressed() after the last read()
    bump_right,
    stop_forced,         \* what the last check_collisions() returned
    p,                   \* line-following error of the last controller step
    last_p,
    line,                \* the last five calibrated readings
    rx_buffer,           \* partial frame text kept between reads
    uart_rx,             \* bytes sent by the bridge, not yet read by the robot
    uart_tx,             \* lines written by the robot, not yet read by the bridge
    commands,            \* rx_buffer.split('\n') still to be walked by the loop
    cmd,                 \* the frame last handed to process_command
    response,            \* what process_command last returned
    pc,                  \* where the program is
    loop_error,          \* the exception main's handler caught in this cycle
    sent,                \* every byte the bridge has put on the link
    handed,              \* every frame handed to process_command, in order
    steps,               \* controller steps taken (controller-only runs)
    \* the bridge node (main_pico.py)
    is_connected,
    last_command,
    last_response,
    connections,         \* BLEUARTBridge._connections
    tx_value,            \* the value held by the TX characteristic
    bpc,                 \* where the bridge program is
    bridge_error,        \* where the exception that ended the bridge arose
    robot_out,           \* bytes the robot has written, not yet read
    serial_writes,       \* every uart.write of the bridge, in order
    notified,            \* every round of gatts_notify, in order
    robot_lines,         \* every line the robot has written, in order
    missed,              \* a read found the flag is_connected down
    writers,             \* per shared field, the sides that have written it
    rx_value,            \* the value held by the RX characteristic
    irq_pending,         \* a write to RX awaits its callback
    beats                \* heartbeats sent so far

vars == <<current_mode, line_calibrated, current_speed, collision_detected,
          left_speed, right_speed, bump_left, bump_right, stop_forced, p,
          last_p, line, rx_buffer, uart_rx, uart_tx, commands, cmd, response, pc,
          loop_error, sent, handed, steps, is_connected, last_command,
          last_response, connections, tx_value, bpc, bridge_error, robot_out,
          serial_writes, notified, robot_lines, missed, writers, rx_value,
          irq_pending, beats>>

bridgeVars == <<is_connected, last_command, last_response, connections,
                tx_value, bpc, bridge_error, robot_out, serial_writes,
                notified, robot_lines, missed, writers, rx_value,
                irq_pending, beats>>

\* the fields command handlers and the collision guard read and write
Robot ==
    [current_mode |-> current_mode, line_calibrated |-> line_calibrated,
     current_speed |-> current_speed, collision_detected |-> collision_detected,
     left_speed |-> left_speed, right_speed |-> right_speed,
     bump_left |-> bump_left, bump_right |-> bump_right,
     stop_forced |-> stop_forced]

SetRobot(r) ==
    /\ current_mode' = r.current_mode
    /\ line_calibrated' = r.line_calibrated
    /\ current_speed' = r.current_speed
    /\ collision_detected' = r.collision_detected
    /\ left_speed' = r.left_speed
    /\ right_speed' = r.right_speed
    /\ bump_left' = r.bump_left
    /\ bump_right' = r.bump_right
    /\ stop_forced' = r.stop_forced

\* motors.set_speeds(l, r) / motors.off()
SetSpeeds(r, l, rr) == [r EXCEPT !.left_speed = l, !.right_speed = rr]
MotorsOff(r) == SetSpeeds(r, 0, 0)

\* what a handler yields: the robot afterwards, the returned text, and the
\* exception it raised ("" when it returned)
Returned(r, text) == [r |-> r, response |-> text, fault |-> ""]
Raised(r, exc) == [r |-> r, response |-> "", fault |-> exc]

----------------------------------------------------------------------------
(* Inputs the hardware supplies                                            *)

NoFault == [phase |-> 0, sample |-> 0]

\* the three sweeps of the calibration sequence
CalibrationPhases ==
    <<[left |-> calibration_speed, right |-> 0 - calibration_speed,
       samples |-> calibration_count \div 4],
      [left |-> 0 - calibration_speed, right |-> calibration_speed,
       samples |-> calibration_count \div 2],
      [left |-> calibration_speed, right |-> 0 - calibration_speed,
       samples |-> calibration_count \div 4]>>

\* line_sensors.calibrate() raising in sample `sample` of sweep `phase`
AllCalFaults ==
    {NoFault} \cup
    UNION {{[phase |-> k, sample |-> i] : i \in 1..CalibrationPhases[k].samples}
           : k \in 1..Len(CalibrationPhases)}

\* the faults drawn in the runs: none, or the first or the last sample of a
\* sweep (the samples of one sweep all run with the same motor setting)
CalFaults ==
    {f \in AllCalFaults :
        f.phase = 0 \/ f.sample \in {1, CalibrationPhases[f.phase].samples}}

CalFaultText == "line sensor fault"

----------------------------------------------------------------------------
(* Command handlers                                                        *)

\* cmd_forward without its collision interlock
cmd_forward_Unguarded(r) ==
    Returned(SetSpeeds([r EXCEPT !.current_mode = MODE_MANUAL],
                       r.current_speed, r.current_speed),
             "MOVING:FORWARD at speed " \o ToString(r.current_speed))

cmd_forward(r) ==
    IF ~r.collision_detected
    THEN Returned(SetSpeeds([r EXCEPT !.current_mode = MODE_MANUAL],
                            r.current_speed, r.current_speed),
                  "MOVING:FORWARD at speed " \o ToString(r.current_speed))
    ELSE Returned(r, "ERROR:COLLISION_DETECTED")

cmd_backward(r) ==
    Returned(SetSpeeds([r EXCEPT !.current_mode = MODE_MANUAL],
                       0 - r.current_speed, 0 - r.current_speed),
             "MOVING:BACKWARD at speed " \o ToString(r.current_speed))

cmd_left(r) ==
    Returned(SetSpeeds([r EXCEPT !.current_mode = MODE_MANUAL],
                       0 - r.current_speed, r.current_speed),
             "TURNING:LEFT at speed " \o ToString(r.current_speed))

cmd_right(r) ==
    Returned(SetSpeeds([r EXCEPT !.current_mode = MODE_MANUAL],
                       r.current_speed, 0 - r.current_speed),
             "TURNING:RIGHT at speed " \o ToString(r.current_speed))

\* cmd_stop that sets the mode but leaves the motors running
StopHalt_MotorsOn(r) == [r EXCEPT !.current_mode = MODE_STOPPED]

\* cmd_stop up to its time.sleep_ms(3000): mode STOPPED, motors off
StopHalt(r) == MotorsOff([r EXCEPT !.current_mode = MODE_STOPPED])

\* cmd_stop after the sleep, when the mode before was LINE_FOLLOWING
StopResume(r) ==
    Returned([r EXCEPT !.current_mode = MODE_LINE_FOLLOWING],
             "STOPPED (resuming line following)")

cmd_stop(r) ==
    IF r.current_mode = MODE_LINE_FOLLOWING
    THEN StopResume(StopHalt(r))
    ELSE Returned(StopHalt(r), "STOPPED")

\* cmd_speed that clamps an out-of-range level to the nearest valid one
cmd_speed_Clamps(r, level) ==
    IF ~IntOk(level)
    THEN Returned(r, "ERROR:INVALID_SPEED_LEVEL (use 1-3)")
    ELSE LET level_num == IntVal(level)
             set(v) == Returned([r EXCEPT !.current_speed = v],
                                "SPEED_SET:" \o ToString(level_num)
                                 \o " (" \o ToString(v) \o ")")
         IN  IF level_num <= 1 THEN set(SPEED_LEVEL_1)
             ELSE IF level_num = 2 THEN set(SPEED_LEVEL_2)
             ELSE set(SPEED_LEVEL_3)

cmd_speed(r, level) ==
    IF ~IntOk(level)
    THEN Returned(r, "ERROR:INVALID_SPEED_LEVEL (use 1-3)")
    ELSE LET level_num == IntVal(level)
             set(v) == Returned([r EXCEPT !.current_speed = v],
                                "SPEED_SET:" \o ToString(level_num)
                                 \o " (" \o ToString(v) \o ")")
         IN  IF level_num = 1 THEN set(SPEED_LEVEL_1)
             ELSE IF level_num = 2 THEN set(SPEED_LEVEL_2)
             ELSE IF level_num = 3 THEN set(SPEED_LEVEL_3)
             ELSE Returned(r, "ERROR:INVALID_SPEED_LEVEL (use 1-3)")

ModeText(m) ==
    IF m = MODE_MANUAL THEN "MANUAL"
    ELSE IF m = MODE_LINE_FOLLOWING THEN "LINE_FOLLOWING"
    ELSE "STOPPED"

\* reads the bump sensors afresh, changes nothing else
cmd_status(r, env) ==
    LET r1 == [r EXCEPT !.bump_left = env.bump_left,
                        !.bump_right = env.bump_right]
    IN  Returned(r1,
            "STATUS:OK,"
            \o "BATTERY:" \o ToString(env.battery) \o "%,"
            \o "MODE:" \o ModeText(r.current_mode) \o ","
            \o "SPEED:" \o ToString(r.current_speed) \o ","
            \o "CALIBRATED:" \o PyBool(r.line_calibrated) \o ","
            \o "COLLISION:" \o PyBool(r.collision_detected) \o ","
            \o "LEFT_BUMP:" \o PyBool(r1.bump_left) \o ","
            \o "RIGHT_BUMP:" \o PyBool(r1.bump_right))

\* the robot while sweep `k` runs
Sweeping(r, k) ==
    SetSpeeds(r, CalibrationPhases[k].left, CalibrationPhases[k].right)

\* calibrate_line_sensors whose except clause leaves line_calibrated alone
calibrate_line_sensors_KeepsFlag(r, fault) ==
    LET r0 == MotorsOff([r EXCEPT !.current_mode = MODE_STOPPED])
    IN  IF fault.phase = 0
        THEN Returned([MotorsOff(r0) EXCEPT
                          !.line_calibrated = TRUE,
                          !.current_mode = MODE_LINE_FOLLOWING],
                      "LINE_SENSORS:CALIBRATED_AND_FOLLOWING")
        ELSE Returned(Sweeping(r0, fault.phase),
                      "ERROR:CALIBRATION_FAILED (" \o CalFaultText \o ")")

\* calibrate_line_sensors that leaves the mode STOPPED after a good run
calibrate_line_sensors_StaysStopped(r, fault) ==
    LET r0 == MotorsOff([r EXCEPT !.current_mode = MODE_STOPPED])
    IN  IF fault.phase = 0
        THEN Returned([MotorsOff(r0) EXCEPT !.line_calibrated = TRUE],
                      "LINE_SENSORS:CALIBRATED_AND_FOLLOWING")
        ELSE Returned([Sweeping(r0, fault.phase) EXCEPT
                          !.line_calibrated = FALSE],
                      "ERROR:CALIBRATION_FAILED (" \o CalFaultText \o ")")

calibrate_line_sensors(r, fault) ==
    LET r0 == MotorsOff([r EXCEPT !.current_mode = MODE_STOPPED])
    IN  IF fault.phase = 0
        THEN \* all three sweeps ran; motors.off() follows each
             Returned([MotorsOff(r0) EXCEPT
                          !.line_calibrated = TRUE,
                          !.current_mode = MODE_LINE_FOLLOWING],
                      "LINE_SENSORS:CALIBRATED_AND_FOLLOWING")
        ELSE \* the except clause runs with the motors as the sweep set them
             Returned([Sweeping(r0, fault.phase) EXCEPT
                          !.line_calibrated = FALSE],
                      "ERROR:CALIBRATION_FAILED (" \o CalFaultText \o ")")

\* cmd_line_follow whose START does not look at line_calibrated
cmd_line_follow_Unchecked(r, param, env) ==
    IF Upper(param) = <<"S","T","A","R","T">>
    THEN Returned([r EXCEPT !.current_mode = MODE_LINE_FOLLOWING],
                  "LINE_FOLLOWING:STARTED")
    ELSE IF Upper(param) = <<"S","T","O","P">>
    THEN Returned(MotorsOff([r EXCEPT !.current_mode = MODE_STOPPED]),
                  "LINE_FOLLOWING:STOPPED")
    ELSE IF Upper(param) = <<"C","A","L","I","B","R","A","T","E">>
    THEN calibrate_line_sensors(r, env.cal)
    ELSE IF r.current_mode = MODE_LINE_FOLLOWING
         THEN Returned(r, "LINE_FOLLOWING:ACTIVE")
         ELSE Returned(r, "LINE_FOLLOWING:INACTIVE")

cmd_line_follow(r, param, env) ==
    IF Upper(param) = <<"S","T","A","R","T">>
    THEN IF r.line_calibrated
         THEN Returned([r EXCEPT !.current_mode = MODE_LINE_FOLLOWING],
                       "LINE_FOLLOWING:STARTED")
         ELSE Returned(r, "ERROR:NOT_CALIBRATED")
    ELSE IF Upper(param) = <<"S","T","O","P">>
    THEN Returned(MotorsOff([r EXCEPT !.current_mode = MODE_STOPPED]),
                  "LINE_FOLLOWING:STOPPED")
    ELSE IF Upper(param) = <<"C","A","L","I","B","R","A","T","E">>
    THEN calibrate_line_sensors(r, env.cal)
    ELSE IF r.current_mode = MODE_LINE_FOLLOWING
         THEN Returned(r, "LINE_FOLLOWING:ACTIVE")
         ELSE Returned(r, "LINE_FOLLOWING:INACTIVE")

cmd_heartbeat(r, val) == Returned(r, "HEARTBEAT_ACK:" \o Str(val))

\* the names of the COMMANDS dictionary
COMMANDS ==
    {"PING", "STATUS", "FORWARD", "BACKWARD", "LEFT", "RIGHT", "STOP",
     "SPEED", "LINE", "HEARTBEAT"}

\* COMMANDS[base_cmd](parts[1]) or COMMANDS[base_cmd](): Python raises
\* TypeError when the number of arguments does not fit the handler
CallHandler(base_cmd, args, r, env) ==
    LET n == Len(args)
    IN  IF base_cmd = "STATUS"
        THEN IF n = 0 THEN cmd_status(r, env) ELSE Raised(r, "TypeError")
        ELSE IF base_cmd = "FORWARD"
        THEN IF n = 0 THEN cmd_forward(r) ELSE Raised(r, "TypeError")
        ELSE IF base_cmd = "BACKWARD"
        THEN IF n = 0 THEN cmd_backward(r) ELSE Raised(r, "TypeError")
        ELSE IF base_cmd = "LEFT"
        THEN IF n = 0 THEN cmd_left(r) ELSE Raised(r, "TypeError")
        ELSE IF base_cmd = "RIGHT"
        THEN IF n = 0 THEN cmd_right(r) ELSE Raised(r, "TypeError")
        ELSE IF base_cmd = "STOP"
        THEN IF n = 0 THEN cmd_stop(r) ELSE Raised(r, "TypeError")
        ELSE IF base_cmd = "SPEED"
        THEN IF n = 1 THEN cmd_speed(r, args[1]) ELSE Raised(r, "TypeError")
        ELSE IF base_cmd = "LINE"
        THEN cmd_line_follow(r, IF n = 1 THEN args[1] ELSE <<>>, env)
        ELSE \* HEARTBEAT
             IF n = 1 THEN cmd_heartbeat(r, args[1]) ELSE Raised(r, "TypeError")

\* process_command without the upper()
process_command_CaseSensitive(command, r, env) ==
    LET text == Strip(command)
        parts == Split(text)
    IN  IF parts = <<>> THEN Raised(r, "IndexError")
        ELSE LET base_cmd == Str(parts[1])
                 args == IF Len(parts) > 1 THEN <<parts[2]>> ELSE <<>>
             IN  IF base_cmd \in COMMANDS
                 THEN IF base_cmd = "PING" THEN Returned(r, "PONG")
                      ELSE CallHandler(base_cmd, args, r, env)
                 ELSE Returned(r, "ERROR:UNKNOWN_COMMAND")

process_command(command, r, env) ==
    LET text == Upper(Strip(command))
        parts == Split(text)
    IN  IF parts = <<>> THEN Raised(r, "IndexError")
        ELSE LET base_cmd == Str(parts[1])
                 args == IF Len(parts) > 1 THEN <<parts[2]>> ELSE <<>>
             IN  IF base_cmd \in COMMANDS
                 THEN IF base_cmd = "PING" THEN Returned(r, "PONG")
                      ELSE CallHandler(base_cmd, args, r, env)
                 ELSE Returned(r, "ERROR:UNKNOWN_COMMAND")

----------------------------------------------------------------------------
(* Collision guard and line-following controller                           *)

\* check_collisions that latches the collision but leaves mode and motors
check_collisions_LatchOnly(r, bl, br) ==
    LET r1 == [r EXCEPT !.bump_left = bl, !.bump_right = br,
                        !.stop_forced = FALSE]
    IN  IF bl \/ br
        THEN [r1 EXCEPT !.collision_detected = TRUE]
        ELSE [r1 EXCEPT !.collision_detected = FALSE]

\* check_collisions that sets STOPPED on a new collision without motors.off()
check_collisions_KeepsDriving(r, bl, br) ==
    LET r1 == [r EXCEPT !.bump_left = bl, !.bump_right = br,
                        !.stop_forced = FALSE]
    IN  IF bl \/ br
        THEN IF ~r1.collision_detected
             THEN LET r2 == [r1 EXCEPT !.collision_detected = TRUE]
                  IN  IF /\ r2.current_mode # MODE_STOPPED
                         /\ r2.left_speed > 0
                         /\ r2.right_speed > 0
                      THEN [r2 EXCEPT !.current_mode = MODE_STOPPED,
                                      !.stop_forced = TRUE]
                      ELSE r2
             ELSE r1
        ELSE IF r1.collision_detected
             THEN [r1 EXCEPT !.collision_detected = FALSE]
             ELSE r1

\* check_collisions() with the bump sensors reading (bl, br); stop_forced
\* is its return value
check_collisions(r, bl, br) ==
    LET r1 == [r EXCEPT !.bump_left = bl, !.bump_right = br,
                        !.stop_forced = FALSE]
    IN  IF bl \/ br
        THEN IF ~r1.collision_detected
             THEN LET r2 == [r1 EXCEPT !.collision_detected = TRUE]
                  IN  IF /\ r2.current_mode # MODE_STOPPED
                         /\ r2.left_speed > 0
                         /\ r2.right_speed > 0
                      THEN [MotorsOff(r2) EXCEPT
                               !.current_mode = MODE_STOPPED,
                               !.stop_forced = TRUE]
                      ELSE r2
             ELSE r1
        ELSE IF r1.collision_detected
             THEN [r1 EXCEPT !.collision_detected = FALSE]
             ELSE r1

Max(a, b) == IF a >= b THEN a ELSE b
Min(a, b) == IF a <= b THEN a ELSE b

\* sum(line)
Sum5(v) == v[1] + v[2] + v[3] + v[4] + v[5]

\* the estimate with the outer reading line[0] left out of the divisor
LinePosition_InnerSum(v, prev) ==
    IF v[2] < LineThreshold /\ v[3] < LineThreshold /\ v[4] < LineThreshold
    THEN IF prev < 0 THEN 0 ELSE LineFarSide
    ELSE IF v[2] + v[3] + v[4] + v[5] = 0
         THEN LineCentre
         ELSE (1000 * v[2] + 2000 * v[3] + 3000 * v[4] + 4000 * v[5])
                \div (v[2] + v[3] + v[4] + v[5])

\* the estimate l of follow_line; v[1..5] are line[0..4], prev is p on entry.
\* All operands are non-negative, so Python's // is \div.
LinePosition(v, prev) ==
    IF v[2] < LineThreshold /\ v[3] < LineThreshold /\ v[4] < LineThreshold
    THEN IF prev < 0 THEN 0 ELSE LineFarSide
    ELSE IF Sum5(v) = 0
         THEN LineCentre    \* except ZeroDivisionError
         ELSE (1000 * v[2] + 2000 * v[3] + 3000 * v[4] + 4000 * v[5])
                \div Sum5(v)

\* follow_line that forgets `last_p = p`
follow_line_StaleLast(v, prev, prev_last, speed) ==
    LET l == IF v[2] < LineThreshold /\ v[3] < LineThreshold
                /\ v[4] < LineThreshold
             THEN IF prev < 0 THEN 0 ELSE LineFarSide
             ELSE IF v[1] + v[2] + v[3] + v[4] + v[5] = 0 THEN LineCentre
             ELSE (1000 * v[2] + 2000 * v[3] + 3000 * v[4] + 4000 * v[5])
                    \div (v[1] + v[2] + v[3] + v[4] + v[5])
        np == l - LineCentre
        d == np - prev_last
        pid == np * Kp + d * Kd
    IN  [p |-> np, last_p |-> prev_last,
         left |-> IF speed + pid < 0 THEN 0
                  ELSE IF speed + pid > speed THEN speed ELSE speed + pid,
         right |-> IF speed - pid < 0 THEN 0
                   ELSE IF speed - pid > speed THEN speed ELSE speed - pid]

\* follow_line without the floor max(min_speed, ...) on the wheel speeds
follow_line_NoFloor(v, prev, prev_last, speed) ==
    LET l == IF v[2] < LineThreshold /\ v[3] < LineThreshold
                /\ v[4] < LineThreshold
             THEN IF prev < 0 THEN 0 ELSE LineFarSide
             ELSE IF v[1] + v[2] + v[3] + v[4] + v[5] = 0 THEN LineCentre
             ELSE (1000 * v[2] + 2000 * v[3] + 3000 * v[4] + 4000 * v[5])
                    \div (v[1] + v[2] + v[3] + v[4] + v[5])
        np == l - LineCentre
        d == np - prev_last
        pid == np * Kp + d * Kd
    IN  [p |-> np, last_p |-> np,
         left |-> IF speed + pid > speed THEN speed ELSE speed + pid,
         right |-> IF speed - pid > speed THEN speed ELSE speed - pid]

\* one follow_line(): the new p, last_p and wheel speeds
follow_line(v, prev, prev_last, speed) ==
    LET l == LinePosition(v, prev)
        np == l - LineCentre
        d == np - prev_last
        pid == np * Kp + d * Kd
        min_speed == 0
        max_speed == speed
    IN  [p |-> np, last_p |-> np,
         left |-> Max(min_speed, Min(max_speed, max_speed + pid)),
         right |-> Max(min_speed, Min(max_speed, max_speed - pid))]

----------------------------------------------------------------------------
(* Inputs of the model                                                     *)

TxtPING == <<"P","I","N","G">>
TxtSTATUS == <<"S","T","A","T","U","S">>
TxtFORWARD == <<"F","O","R","W","A","R","D">>
TxtBACKWARD == <<"B","A","C","K","W","A","R","D">>
TxtLEFT == <<"L","E","F","T">>
TxtRIGHT == <<"R","I","G","H","T">>
TxtSTOP == <<"S","T","O","P">>
TxtSPEED == <<"S","P","E","E","D">>
TxtLINE == <<"L","I","N","E">>
TxtHEARTBEAT == <<"H","E","A","R","T","B","E","A","T">>
TxtSTART == <<"S","T","A","R","T">>
TxtCALIBRATE == <<"C","A","L","I","B","R","A","T","E">>
TxtBOGUS == <<"B","O","G","U","S">>

\* frames in the casing the protocol documents
UpperFrames ==
    {TxtPING, TxtSTATUS, TxtFORWARD, TxtBACKWARD, TxtLEFT, TxtRIGHT, TxtSTOP,
     TxtLINE, TxtBOGUS, TxtSPEED, TxtHEARTBEAT,
     Join(<<TxtSPEED, <<"1">>>>), Join(<<TxtSPEED, <<"2">>>>),
     Join(<<TxtSPEED, <<"3">>>>), Join(<<TxtSPEED, <<"4">>>>),
     Join(<<TxtSPEED, <<"0">>>>), Join(<<TxtSPEED, <<"-","1">>>>),
     Join(<<TxtSPEED, <<"1","0">>>>), Join(<<TxtSPEED, <<"X">>>>),
     Join(<<TxtSPEED, <<"2","A">>>>), Join(<<TxtSPEED, TxtSTOP>>),
     Join(<<TxtSPEED, <<"0","2">>>>), Join(<<TxtSPEED, <<"+","3">>>>),
     Join(<<TxtSPEED, <<"3","3">>>>), Join(<<TxtSPEED, <<"-">>>>),
     Join(<<TxtLINE, TxtSTART>>), Join(<<TxtLINE, TxtSTOP>>),
     Join(<<TxtLINE, TxtCALIBRATE>>), Join(<<TxtLINE, TxtBOGUS>>),
     Join(<<TxtHEARTBEAT, <<"7">>>>), Join(<<TxtHEARTBEAT, <<"A","B">>>>),
     Join(<<TxtFORWARD, <<"1">>>>), Join(<<TxtSTOP, <<"1">>>>),
     Join(<<TxtSTATUS, <<"X">>>>), Join(<<TxtPING, <<"1">>>>),
     Join(<<TxtBOGUS, <<"1">>>>)}

\* a frame with only its first letter in upper case
Capitalised(f) == <<UpperChar(f[1])>> \o Lower(Tail(f))

\* every frame in upper, lower and capitalised casing, bare and padded
AllFrames ==
    UNION {{f, Lower(f), Capitalised(f), <<" ">> \o Lower(f) \o <<"\r">>}
           : f \in UpperFrames}

\* the frames the bridge puts on the serial link in the control-loop runs
WireFrames ==
    {TxtPING, Lower(TxtPING), TxtSTATUS, TxtFORWARD, TxtBACKWARD, TxtLEFT,
     TxtSTOP, TxtSPEED, <<" ">>,
     Join(<<TxtSPEED, <<"2">>>>), Join(<<TxtSPEED, <<"3">>>>),
     Join(<<TxtSPEED, <<"4">>>>), Join(<<Lower(TxtSPEED), <<"x">>>>),
     Join(<<TxtLINE, TxtSTART>>), Join(<<TxtLINE, TxtSTOP>>),
     Join(<<TxtLINE, TxtCALIBRATE>>), Join(<<TxtFORWARD, <<"1">>>>)}

\* the reading vectors the controller is given in the control-loop runs:
\* no line, line under the centre, line to the left
LoopReadings ==
    {<<0, 0, 0, 0, 0>>, <<0, 0, ReadingMax, 0, 0>>,
     <<ReadingMax, ReadingMax, 0, 0, 0>>}

\* the reading vectors of the controller-only runs: the centre readings on
\* both sides of the threshold, the outer ones at both ends of the range
CentreLevels == {0, LineThreshold - 1, LineThreshold, ReadingMax}
OuterLevels == {0, ReadingMax}
GridReadings ==
    {<<a, b, c, d, e>> : a \in OuterLevels, b \in CentreLevels,
                         c \in CentreLevels, d \in CentreLevels,
                         e \in OuterLevels}

EnvDefault ==
    [bump_left |-> FALSE, bump_right |-> FALSE, battery |-> BatteryMin,
     cal |-> NoFault]

\* one draw of what cmd_status reads: both bump sensors and the battery figure
StatusEnvs ==
    [bump_left : BOOLEAN, bump_right : BOOLEAN,
     battery : {BatteryMin, BatteryMax}, cal : {NoFault}]

\* the first word of a frame as process_command sees it ("" for a blank one)
BaseOf(c) ==
    LET parts == Split(Upper(Strip(c)))
    IN  IF parts = <<>> THEN "" ELSE Str(parts[1])

\* the hardware draws that can matter to the handler of frame c
EnvsFor(c) ==
    IF BaseOf(c) = "STATUS"
    THEN StatusEnvs
    ELSE IF BaseOf(c) = "LINE"
    THEN {[EnvDefault EXCEPT !.cal = f] : f \in CalFaults}
    ELSE {EnvDefault}

----------------------------------------------------------------------------
(* The bridge node: texts and pure parts                                   *)

TxtBridgeReady ==
    <<"R","o","b","o","t"," ","B","r","i","d","g","e"," ","R","e","a","d",
      "y">>
TxtNoCommand ==
    <<"N","o"," ","c","o","m","m","a","n","d","s"," ","r","e","c","e","i",
      "v","e","d"," ","y","e","t">>
TxtNoResponse ==
    <<"N","o"," ","r","e","s","p","o","n","s","e"," ","f","r","o","m"," ",
      "r","o","b","o","t"," ","y","e","t">>
RobotPrefix ==
    <<"R","o","b","o","t",":"," ">>
AckHead ==
    <<"C","o","m","m","a","n","d"," ","'">>
AckTail ==
    <<"'"," ","s","e","n","t"," ","t","o"," ","r","o","b","o","t">>
BridgeActive ==
    <<"B","r","i","d","g","e"," ","a","c","t","i","v","e"," ","-"," ","L",
      "a","s","t"," ","r","o","b","o","t"," ","r","e","s","p","o","n","s",
      "e",":"," ">>

\* the connection handles the radio hands out
ConnHandles == {1, 2}
\* lines of the robot in one behaviour of the logged runs
MaxLines == 2
\* lines of the robot waiting on the link at one time in the other runs
MaxInFlight == 1
\* heartbeats in one behaviour
MaxBeats == 1

\* the fields the callback and the main loop share
SharedFields ==
    {"is_connected", "last_command", "last_response", "connections",
     "tx_value"}

\* command.endswith('\n')
EndsWithNewline(s) == Len(s) > 0 /\ s[Len(s)] = NL

\* _send_to_robot that appends the newline whatever the text ends in
send_to_robot_AlwaysAppends(command) == command \o <<NL>>

\* the bytes _send_to_robot writes to the serial link for `command`
send_to_robot(command) ==
    IF ~EndsWithNewline(command) THEN command \o <<NL>> ELSE command

\* the acknowledgment _send_to_robot hands to update_tx
Ack(command) == AckHead \o Strip(send_to_robot(command)) \o AckTail

\* the heartbeat line of the k-th period
HeartbeatLine(k) == TxtHEARTBEAT \o <<" ", ToString(k), NL>>

\* `side` has written `field`
Wrote(w, field, side) == [w EXCEPT ![field] = @ \cup {side}]

BridgeInit ==
    /\ is_connected = FALSE
    /\ last_command = TxtNoCommand
    /\ last_response = TxtNoResponse
    /\ connections = {}
    /\ tx_value = <<>>
    /\ bpc = "boot"
    /\ bridge_error = ""
    /\ robot_out = <<>>
    /\ serial_writes = <<>>
    /\ notified = <<>>
    /\ robot_lines = <<>>
    /\ missed = FALSE
    /\ writers = [f \in SharedFields |-> {}]
    /\ rx_value = <<>>
    /\ irq_pending = FALSE
    /\ beats = 0

----------------------------------------------------------------------------
(* The program                                                             *)

Init ==
    /\ current_mode = MODE_STOPPED
    /\ line_calibrated = FALSE
    /\ current_speed = SPEED_LEVEL_1
    /\ collision_detected = FALSE
    /\ left_speed = 0
    /\ right_speed = 0
    /\ bump_left = FALSE
    /\ bump_right = FALSE
    /\ stop_forced = FALSE
    /\ p = 0
    /\ last_p = 0
    /\ line = <<0, 0, 0, 0, 0>>
    /\ rx_buffer = <<>>
    /\ uart_rx = <<>>
    /\ uart_tx = <<>>
    /\ commands = <<>>
    /\ cmd = <<>>
    /\ response = ""
    /\ pc = "boot"
    /\ loop_error = ""
    /\ sent = <<>>
    /\ handed = <<>>
    /\ steps = 0
    /\ BridgeInit

ctlVars == <<p, last_p, line, steps>>
robotVars == <<current_mode, line_calibrated, current_speed,
               collision_detected, left_speed, right_speed, bump_left,
               bump_right, stop_forced>>
logVars == <<sent, handed>>

\* main() up to the loop: bytes already received are discarded, the line
\* sensors are calibrated, the ready line is written
Boot ==
    /\ pc = "boot"
    /\ \E fault \in CalFaults :
          SetRobot(calibrate_line_sensors(Robot, fault).r)
    /\ uart_rx' = <<>>
    /\ uart_tx' = Append(uart_tx, "ROBOT_READY_AND_FOLLOWING")
    /\ pc' = "check"
    /\ UNCHANGED <<ctlVars, rx_buffer, commands, cmd, response, loop_error,
                   logVars, bridgeVars>>

\* the serial link holds nothing in either direction, read or unread
LinkIdle ==
    /\ uart_rx = <<>>
    /\ rx_buffer = <<>>
    /\ commands = <<>>
    /\ uart_tx = <<>>

\* the bridge writes frame f and its newline to the serial link
Write(f) ==
    /\ uart_rx' = uart_rx \o f \o <<NL>>
    /\ UNCHANGED <<robotVars, ctlVars, rx_buffer, uart_tx, commands, cmd,
                   response, pc, loop_error>>

\* a frame is sent once the link has drained.  The robot looks at uart_rx
\* only in its read step, so every moment of sending within a cycle is the
\* same to it as the top of the cycle, where the model places it.
Send ==
    /\ pc = "check"
    /\ LinkIdle
    /\ \E f \in WireFrames : Write(f)
    /\ UNCHANGED <<logVars, bridgeVars>>

\* the bridge reads what the robot has written (placed at the top of the
\* cycle for the same reason)
BridgeRead ==
    /\ pc = "check"
    /\ uart_tx # <<>>
    /\ uart_tx' = <<>>
    /\ UNCHANGED <<robotVars, ctlVars, rx_buffer, uart_rx, commands, cmd,
                   response, pc, loop_error, logVars, bridgeVars>>

\* top of the loop: check_collisions().  The robot never reads uart_tx, so
\* letting the bridge drain it before the next cycle removes no behaviour of
\* the robot; it keeps the lines in flight to those of one cycle.
CheckCollisions ==
    /\ pc = "check"
    /\ uart_tx = <<>>
    /\ \E bl \in BOOLEAN, br \in BOOLEAN :
          SetRobot(check_collisions(Robot, bl, br))
    /\ pc' = "uart"
    /\ UNCHANGED <<ctlVars, rx_buffer, uart_rx, uart_tx, commands, cmd,
                   response, loop_error, logVars, bridgeVars>>

\* uart.any() is 0: nothing is waiting
UartIdle ==
    /\ pc = "uart"
    /\ uart_rx = <<>>
    /\ pc' = "follow"
    /\ UNCHANGED <<robotVars, ctlVars, rx_buffer, uart_rx, uart_tx, commands,
                   cmd, response, loop_error, logVars, bridgeVars>>

\* uart.read() returns the n bytes that have arrived; they join rx_buffer,
\* which is split into frames when it holds a newline
ReadBytes(n) ==
    /\ pc = "uart"
    /\ uart_rx # <<>>
    /\ LET buf == rx_buffer \o SubSeq(uart_rx, 1, n)
       IN  /\ uart_rx' = SubSeq(uart_rx, n + 1, Len(uart_rx))
           /\ rx_buffer' = buf
           /\ IF HasNewline(buf)
              THEN commands' = SplitLines(buf) /\ pc' = "dispatch"
              ELSE commands' = <<>> /\ pc' = "follow"
    /\ UNCHANGED <<robotVars, ctlVars, uart_tx, cmd, response, loop_error,
                   logVars, bridgeVars>>

\* everything sent has arrived when the robot reads
UartRead == ReadBytes(Len(uart_rx))

\* only the first n bytes sent have arrived when the robot reads
UartReadPart == \E n \in 1..(Len(uart_rx) - 1) : ReadBytes(n)

\* the for loop moves past commands[0]; after the last complete frame the
\* trailing piece becomes rx_buffer
NextCommand ==
    IF Len(commands) = 2
    THEN rx_buffer' = commands[2] /\ commands' = <<>> /\ pc' = "follow"
    ELSE rx_buffer' = rx_buffer /\ commands' = Tail(commands)
         /\ pc' = "dispatch"

\* a frame that is STOP without a parameter
IsStop(c) == Split(Upper(Strip(c))) = <<TxtSTOP>>

\* `if cmd.strip()` is false: the frame is skipped
DispatchBlank ==
    /\ pc = "dispatch"
    /\ Strip(commands[1]) = <<>>
    /\ NextCommand
    /\ UNCHANGED <<robotVars, ctlVars, uart_rx, uart_tx, cmd, response,
                   loop_error, logVars, bridgeVars>>

\* process_command returns; its response is written to the serial link
Returns ==
    /\ pc = "dispatch"
    /\ Strip(commands[1]) # <<>>
    /\ ~(IsStop(commands[1]) /\ current_mode = MODE_LINE_FOLLOWING)
    /\ \E env \in EnvsFor(commands[1]) :
          LET res == process_command(Strip(commands[1]), Robot, env)
          IN  /\ res.fault = ""
              /\ SetRobot(res.r)
              /\ response' = res.response
              /\ uart_tx' = Append(uart_tx, res.response)
    /\ cmd' = Strip(commands[1])
    /\ NextCommand
    /\ UNCHANGED <<ctlVars, uart_rx, loop_error>>

\* process_command raises: main's handler logs it and clears rx_buffer, and
\* the frames not yet walked are dropped
Raises ==
    /\ pc = "dispatch"
    /\ Strip(commands[1]) # <<>>
    /\ LET res == process_command(Strip(commands[1]), Robot, EnvDefault)
       IN  /\ res.fault # ""
           /\ loop_error' = res.fault
    /\ cmd' = Strip(commands[1])
    /\ rx_buffer' = <<>>
    /\ commands' = <<>>
    /\ pc' = "follow"
    /\ UNCHANGED <<robotVars, ctlVars, uart_rx, uart_tx, response>>

\* STOP in LINE_FOLLOWING: cmd_stop halts and enters its 3 s sleep
Sleeps ==
    /\ pc = "dispatch"
    /\ IsStop(commands[1])
    /\ current_mode = MODE_LINE_FOLLOWING
    /\ SetRobot(StopHalt(Robot))
    /\ cmd' = Strip(commands[1])
    /\ pc' = "stop_sleep"
    /\ UNCHANGED <<ctlVars, rx_buffer, uart_rx, uart_tx, commands, response,
                   loop_error>>

Dispatch == Returns /\ UNCHANGED <<logVars, bridgeVars>>
DispatchFault == Raises /\ UNCHANGED <<logVars, bridgeVars>>
StopSleep == Sleeps /\ UNCHANGED <<logVars, bridgeVars>>

\* the sleep ends: cmd_stop re-enters LINE_FOLLOWING and returns, and main
\* writes the response
StopWake ==
    /\ pc = "stop_sleep"
    /\ LET res == StopResume(Robot)
       IN  /\ SetRobot(res.r)
           /\ response' = res.response
           /\ uart_tx' = Append(uart_tx, res.response)
    /\ NextCommand
    /\ UNCHANGED <<ctlVars, uart_rx, cmd, loop_error, logVars, bridgeVars>>

\* the controller step of the loop without the test of collision_detected
Follow_IgnoresLatch ==
    /\ pc = "follow"
    /\ IF current_mode = MODE_LINE_FOLLOWING /\ line_calibrated
       THEN \E v \in LoopReadings :
               LET out == follow_line(v, p, last_p, current_speed)
               IN  /\ line' = v
                   /\ p' = out.p
                   /\ last_p' = out.last_p
                   /\ left_speed' = out.left
                   /\ right_speed' = out.right
       ELSE UNCHANGED <<line, p, last_p, left_speed, right_speed>>
    /\ pc' = "status"
    /\ UNCHANGED <<current_mode, line_calibrated, current_speed,
                   collision_detected, bump_left, bump_right, stop_forced,
                   steps, rx_buffer, uart_rx, uart_tx, commands, cmd, response,
                   loop_error, logVars, bridgeVars>>

\* `if current_mode == MODE_LINE_FOLLOWING and line_calibrated and not
\* collision_detected: follow_line()`
Follow ==
    /\ pc = "follow"
    /\ IF /\ current_mode = MODE_LINE_FOLLOWING
          /\ line_calibrated
          /\ ~collision_detected
       THEN \E v \in LoopReadings :
               LET out == follow_line(v, p, last_p, current_speed)
               IN  /\ line' = v
                   /\ p' = out.p
                   /\ last_p' = out.last_p
                   /\ left_speed' = out.left
                   /\ right_speed' = out.right
       ELSE UNCHANGED <<line, p, last_p, left_speed, right_speed>>
    /\ pc' = "status"
    /\ UNCHANGED <<current_mode, line_calibrated, current_speed,
                   collision_detected, bump_left, bump_right, stop_forced,
                   steps, rx_buffer, uart_rx, uart_tx, commands, cmd, response,
                   loop_error, logVars, bridgeVars>>

\* the loop body's locals are dead when the next iteration starts
EndCycle ==
    /\ pc' = "check"
    /\ cmd' = <<>>
    /\ response' = ""
    /\ loop_error' = ""
    /\ UNCHANGED <<ctlVars, rx_buffer, uart_rx, commands, logVars, bridgeVars>>

\* end of the cycle: the periodic counter has not reached its period
NoStatus ==
    /\ pc = "status"
    /\ EndCycle
    /\ UNCHANGED <<robotVars, uart_tx>>

\* end of the cycle: the counter has reached its period and the AUTO status
\* line is written
AutoStatus ==
    /\ pc = "status"
    /\ \E env \in StatusEnvs :
          LET res == cmd_status(Robot, env)
          IN  /\ SetRobot(res.r)
              /\ uart_tx' = Append(uart_tx, "AUTO:" \o res.response)
    /\ EndCycle

Next ==
    \/ Boot
    \/ Send
    \/ BridgeRead
    \/ CheckCollisions
    \/ UartIdle
    \/ UartRead
    \/ DispatchBlank
    \/ Dispatch
    \/ DispatchFault
    \/ StopSleep
    \/ StopWake
    \/ Follow
    \/ NoStatus
    \/ AutoStatus

Spec == Init /\ [][Next]_vars

----------------------------------------------------------------------------
(* The control loop observed: the bytes sent and the frames handed to      *)
(* process_command are recorded, for a bounded number of frames sent at    *)
(* any moment, also while earlier ones are still on the link               *)

\* the frames of the observed runs: well-formed ones, one that is blank and
\* ones whose handler call does not fit the handler's parameters
LoggedFrames ==
    {TxtPING, TxtSPEED, Join(<<TxtSPEED, <<"2">>>>), TxtSTOP, <<" ">>,
     Join(<<TxtFORWARD, <<"1">>>>)}

SendLogged ==
    /\ pc = "check"
    /\ Len(SplitLines(sent)) - 1 < MaxSent
    /\ \E f \in LoggedFrames : Write(f) /\ sent' = sent \o f \o <<NL>>
    /\ UNCHANGED <<handed, bridgeVars>>

Hand ==
    /\ handed' = Append(handed, Strip(commands[1]))
    /\ UNCHANGED <<sent, bridgeVars>>

DispatchLogged == Returns /\ Hand
DispatchFaultLogged == Raises /\ Hand
StopSleepLogged == Sleeps /\ Hand

NextLogged ==
    \/ Boot
    \/ SendLogged
    \/ BridgeRead
    \/ CheckCollisions
    \/ UartIdle
    \/ UartRead
    \/ UartReadPart
    \/ DispatchBlank
    \/ DispatchLogged
    \/ DispatchFaultLogged
    \/ StopSleepLogged
    \/ StopWake
    \/ Follow
    \/ NoStatus

SpecLogged == Init /\ [][NextLogged]_vars

----------------------------------------------------------------------------
(* The controller alone: follow_line() over the grid of readings           *)

InitFollow ==
    /\ current_mode = MODE_LINE_FOLLOWING
    /\ line_calibrated = TRUE
    /\ current_speed \in {SPEED_LEVEL_1, SPEED_LEVEL_2, SPEED_LEVEL_3}
    /\ collision_detected = FALSE
    /\ left_speed = 0
    /\ right_speed = 0
    /\ bump_left = FALSE
    /\ bump_right = FALSE
    /\ stop_forced = FALSE
    /\ p = 0
    /\ last_p = 0
    /\ line = <<0, 0, 0, 0, 0>>
    /\ rx_buffer = <<>>
    /\ uart_rx = <<>>
    /\ uart_tx = <<>>
    /\ commands = <<>>
    /\ cmd = <<>>
    /\ response = ""
    /\ pc = "follow"
    /\ loop_error = ""
    /\ sent = <<>>
    /\ handed = <<>>
    /\ steps = 0
    /\ BridgeInit

ControllerStep ==
    /\ steps < MaxFollowSteps
    /\ \E v \in GridReadings :
          LET out == follow_line(v, p, last_p, current_speed)
          IN  /\ line' = v
              /\ p' = out.p
              /\ last_p' = out.last_p
              /\ left_speed' = out.left
              /\ right_speed' = out.right
    /\ steps' = steps + 1
    /\ UNCHANGED <<current_mode, line_calibrated, current_speed,
                   collision_detected, bump_left, bump_right, stop_forced,
                   rx_buffer, uart_rx, uart_tx, commands, cmd, response, pc,
                   loop_error, logVars, bridgeVars>>

NextFollow == ControllerStep

SpecFollow == InitFollow /\ [][NextFollow]_vars

----------------------------------------------------------------------------
(* The bridge node: the radio callback and the main loop.  The robot is    *)
(* the environment here: it writes lines, which arrive in any chunks.      *)

robotSide == <<robotVars, ctlVars, rx_buffer, uart_rx, uart_tx, commands, cmd,
               response, pc, loop_error, logVars>>

\* the texts written to the RX characteristic
WirelessTexts == {TxtPING, <<" ">> \o Lower(TxtSTOP) \o <<NL>>}

\* the lines the robot writes
RobotLines == {<<"P","O","N","G">>, <<"S","T","O","P","P","E","D">>}

\* how many of the `len` bytes waiting a read returns: all of them, or the
\* first five (a line and no more, or part of a line)
ReadSizes(len) == {n \in 1..len : n = len \/ n = 5}

\* the callback can run: it is registered and the program has not ended.
\* The rest of an iteration after the heartbeat reads and writes none of the
\* shared fields, so a callback during it is the same as one at the top of
\* the next iteration, where the model places it.
BridgeRunning == bpc \in {"check", "beat"}

\* update_tx(new_value): gatts_write, then one gatts_notify per connection
update_tx(new_value) ==
    /\ tx_value' = new_value
    /\ notified' = IF connections = {} THEN notified
                   ELSE Append(notified,
                               [to |-> connections, text |-> new_value])

\* nothing the bridge has sent out is waiting to be taken
BridgeIdle == serial_writes = <<>> /\ notified = <<>>

\* main() up to the loop: the service is created and PING is written
BridgeBoot ==
    /\ bpc = "boot"
    /\ connections' = {}
    /\ tx_value' = TxtBridgeReady
    /\ serial_writes' = Append(serial_writes, TxtPING \o <<NL>>)
    /\ bpc' = "check"
    /\ UNCHANGED <<robotSide, is_connected, last_command, last_response,
                 bridge_error, robot_out, notified, robot_lines, missed,
                 writers, rx_value, irq_pending, beats>>

\* main() raises before its try block (the radio cannot be set up): the
\* handler of __main__ takes it and blinks for ever
BridgeBootFault ==
    /\ bpc = "boot"
    /\ bpc' = "fatal"
    /\ bridge_error' = "boot"
    /\ UNCHANGED <<robotSide, is_connected, last_command, last_response,
                 connections, tx_value, robot_out, serial_writes, notified,
                 robot_lines, missed, writers, rx_value, irq_pending, beats>>

\* _irq(_IRQ_CENTRAL_CONNECT, (h, _, _))
IrqConnect ==
    /\ BridgeRunning
    /\ \E h \in ConnHandles : connections' = connections \cup {h}
    /\ is_connected' = TRUE
    /\ writers' = Wrote(Wrote(writers, "connections", "irq"),
                        "is_connected", "irq")
    /\ UNCHANGED <<robotSide, last_command, last_response, tx_value, bpc,
                 bridge_error, robot_out, serial_writes, notified,
                 robot_lines, missed, rx_value, irq_pending, beats>>

\* _irq(_IRQ_CENTRAL_DISCONNECT, (h, _, _))
IrqDisconnect ==
    /\ BridgeRunning
    /\ \E h \in ConnHandles :
          IF h \in connections
          THEN /\ connections' = connections \ {h}
               /\ writers' = Wrote(Wrote(writers, "connections", "irq"),
                                   "is_connected", "irq")
          ELSE /\ connections' = connections
               /\ writers' = Wrote(writers, "is_connected", "irq")
    /\ is_connected' = FALSE
    /\ UNCHANGED <<robotSide, last_command, last_response, tx_value, bpc,
                 bridge_error, robot_out, serial_writes, notified,
                 robot_lines, missed, rx_value, irq_pending, beats>>

\* a central writes a text to the RX characteristic: the radio stores it and
\* schedules the callback.  The central writes once what the bridge sent
\* out before has been taken.
CentralWrites ==
    /\ BridgeRunning
    /\ ~irq_pending
    /\ BridgeIdle
    /\ rx_value' \in WirelessTexts
    /\ irq_pending' = TRUE
    /\ UNCHANGED <<robotSide, is_connected, last_command, last_response,
                 connections, tx_value, bpc, bridge_error, robot_out,
                 serial_writes, notified, robot_lines, missed, writers,
                 beats>>

\* _irq(_IRQ_GATTS_WRITE, (h, _handle_rx)): the text is read from the
\* characteristic, recorded and handed to _send_to_robot, which writes it
\* and acknowledges
IrqWrite ==
    /\ BridgeRunning
    /\ irq_pending
    /\ LET message == rx_value
       IN  /\ last_command' = message
           /\ serial_writes' = Append(serial_writes, send_to_robot(message))
           /\ update_tx(Ack(message))
    /\ writers' = Wrote(Wrote(writers, "last_command", "irq"),
                        "tx_value", "irq")
    /\ irq_pending' = FALSE
    /\ UNCHANGED <<robotSide, is_connected, last_response, connections, bpc,
                 bridge_error, robot_out, robot_lines, missed, rx_value,
                 beats>>

\* the robot takes what the bridge has written to the serial link.  Nothing
\* in the bridge reads serial_writes or notified, so the moment they are
\* taken is placed at the top of an iteration.
RobotReads ==
    /\ bpc = "check"
    /\ serial_writes # <<>>
    /\ serial_writes' = <<>>
    /\ UNCHANGED <<robotSide, is_connected, last_command, last_response,
                 connections, tx_value, bpc, bridge_error, robot_out,
                 notified, robot_lines, missed, writers, rx_value,
                 irq_pending, beats>>

\* the centrals take the notifications sent to them
CentralReceives ==
    /\ bpc = "check"
    /\ notified # <<>>
    /\ notified' = <<>>
    /\ UNCHANGED <<robotSide, is_connected, last_command, last_response,
                 connections, tx_value, bpc, bridge_error, robot_out,
                 serial_writes, robot_lines, missed, writers, rx_value,
                 irq_pending, beats>>

\* the robot writes one line and its newline.  The bridge looks at the link
\* only in check_for_robot_response, so the line is placed just before it.
RobotWrites ==
    /\ bpc = "check"
    /\ BridgeIdle
    /\ Len(SplitLines(robot_out)) - 1 < MaxInFlight
    /\ \E l \in RobotLines : robot_out' = robot_out \o l \o <<NL>>
    /\ UNCHANGED <<robotSide, is_connected, last_command, last_response,
                 connections, tx_value, bpc, bridge_error, serial_writes,
                 notified, robot_lines, missed, writers, rx_value,
                 irq_pending, beats>>

\* the same with the line recorded, for a bounded number of lines
RobotWritesLogged ==
    /\ bpc = "check"
    /\ Len(robot_lines) < MaxLines
    /\ \E l \in RobotLines :
          /\ robot_out' = robot_out \o l \o <<NL>>
          /\ robot_lines' = Append(robot_lines, l)
    /\ UNCHANGED <<robotSide, is_connected, last_command, last_response,
                 connections, tx_value, bpc, bridge_error, serial_writes,
                 notified, missed, writers, rx_value, irq_pending, beats>>

\* check_for_robot_response() with uart.any() false
CheckNothing ==
    /\ bpc = "check"
    /\ robot_out = <<>>
    /\ bpc' = "beat"
    /\ UNCHANGED <<robotSide, is_connected, last_command, last_response,
                 connections, tx_value, bridge_error, robot_out,
                 serial_writes, notified, robot_lines, missed, writers,
                 rx_value, irq_pending, beats>>

\* check_for_robot_response() with the first n bytes arrived: uart.read()
\* returns them, they are stripped, recorded and, with the flag up, forwarded
ReadResponse(n) ==
    /\ bpc = "check"
    /\ robot_out # <<>>
    /\ LET response_str == Strip(SubSeq(robot_out, 1, n))
       IN  /\ robot_out' = SubSeq(robot_out, n + 1, Len(robot_out))
           /\ last_response' = response_str
           /\ IF is_connected
              THEN /\ update_tx(RobotPrefix \o response_str)
                   /\ writers' = Wrote(Wrote(writers, "last_response",
                                             "loop"), "tx_value", "loop")
                   /\ missed' = missed
              ELSE /\ UNCHANGED <<tx_value, notified>>
                   /\ writers' = Wrote(writers, "last_response", "loop")
                   /\ missed' = TRUE
    /\ bpc' = "beat"
    /\ UNCHANGED <<robotSide, is_connected, last_command, connections,
                 bridge_error, serial_writes, robot_lines, rx_value,
                 irq_pending, beats>>

\* everything the robot has written has arrived when the bridge reads
CheckResponse == ReadResponse(Len(robot_out))

\* only the first n bytes have arrived when the bridge reads
CheckResponsePart ==
    \E n \in ReadSizes(Len(robot_out)) \ {Len(robot_out)} : ReadResponse(n)

\* counter % 30 == 0: the heartbeat is written and, with the flag up, the
\* status line goes out
Heartbeat ==
    /\ bpc = "beat"
    /\ beats < MaxBeats
    /\ serial_writes' = Append(serial_writes, HeartbeatLine(beats + 1))
    /\ IF is_connected
       THEN /\ update_tx(BridgeActive \o last_response)
            /\ writers' = Wrote(writers, "tx_value", "loop")
       ELSE UNCHANGED <<tx_value, notified, writers>>
    /\ beats' = beats + 1
    /\ bpc' = "tail"
    /\ UNCHANGED <<robotSide, is_connected, last_command, last_response,
                 connections, bridge_error, robot_out, robot_lines, missed,
                 rx_value, irq_pending>>

\* counter % 30 # 0
NoHeartbeat ==
    /\ bpc = "beat"
    /\ bpc' = "tail"
    /\ UNCHANGED <<robotSide, is_connected, last_command, last_response,
                 connections, tx_value, bridge_error, robot_out,
                 serial_writes, notified, robot_lines, missed, writers,
                 rx_value, irq_pending, beats>>

\* the rest of the iteration: console status, LED, sleep
LoopTail ==
    /\ bpc = "tail"
    /\ bpc' = "check"
    /\ UNCHANGED <<robotSide, is_connected, last_command, last_response,
                 connections, tx_value, bridge_error, robot_out,
                 serial_writes, notified, robot_lines, missed, writers,
                 rx_value, irq_pending, beats>>

\* a statement of the iteration outside the local try blocks raises: the
\* except clause of main() logs it, main() returns and the program ends
LoopFault ==
    /\ bpc = "tail"
    /\ bpc' = "exited"
    /\ bridge_error' = "loop"
    /\ UNCHANGED <<robotSide, is_connected, last_command, last_response,
                 connections, tx_value, robot_out, serial_writes, notified,
                 robot_lines, missed, writers, rx_value, irq_pending, beats>>

NextBridge ==
    \/ BridgeBoot
    \/ BridgeBootFault
    \/ IrqConnect
    \/ IrqDisconnect
    \/ CentralWrites
    \/ IrqWrite
    \/ RobotReads
    \/ CentralReceives
    \/ RobotWrites
    \/ CheckNothing
    \/ CheckResponse
    \/ Heartbeat
    \/ NoHeartbeat
    \/ LoopTail
    \/ LoopFault

SpecBridge == Init /\ [][NextBridge]_vars

----------------------------------------------------------------------------
(* The bridge relaying robot lines that arrive in any chunks               *)

NextRelay ==
    \/ BridgeBoot
    \/ IrqConnect
    \/ IrqDisconnect
    \/ RobotWritesLogged
    \/ CheckNothing
    \/ CheckResponse
    \/ CheckResponsePart
    \/ NoHeartbeat
    \/ LoopTail

SpecRelay == Init /\ [][NextRelay]_vars

----------------------------------------------------------------------------
(* Properties                                                              *)

\* the frames one serial read of the whole of `bytes` hands to
\* process_command, walking the complete frames as the loop does from an
\* empty rx_buffer
RECURSIVE HandedFrom(_)
HandedFrom(cs) ==
    IF Len(cs) <= 1 THEN <<>>
    ELSE IF Strip(cs[1]) = <<>> THEN HandedFrom(Tail(cs))
    ELSE IF process_command(Strip(cs[1]), Robot, EnvDefault).fault # ""
         THEN <<Strip(cs[1])>>
         ELSE <<Strip(cs[1])>> \o HandedFrom(Tail(cs))

OneReadHanded(bytes) == HandedFrom(SplitLines(bytes))

\* C1: once every byte sent has been read and its frames walked, the frames
\* handed to process_command are those a single read of all the bytes hands
\* over, however the bytes were split across reads.
C1_FragmentationInvariance ==
    (pc = "follow" /\ uart_rx = <<>>) => handed = OneReadHanded(sent)

\* C2: no fault raised while a frame is dispatched reaches the control
\* loop's own exception handler.
C2_NoFaultReachesLoop == loop_error = ""

Halted ==
    /\ current_mode = MODE_STOPPED
    /\ left_speed = 0
    /\ right_speed = 0
    /\ collision_detected

\* the step is the collision sample at the top of a cycle
SampleStep == pc = "check" /\ pc' = "uart"

\* the step runs (part of) a command handler
HandlerStep == pc \in {"dispatch", "stop_sleep"}

\* C3: a sample that finds a bumper pressed while the mode is not STOPPED, no
\* collision is latched and both wheels run forward leaves the robot
\* STOPPED with both wheels at 0 and the collision latched; and a robot
\* halted with the latch set stays so through every step that is neither a
\* command dispatch nor the next sample.
C3_EmergencyStop ==
    [][ /\ ( /\ SampleStep
             /\ current_mode # MODE_STOPPED
             /\ ~collision_detected
             /\ left_speed > 0
             /\ right_speed > 0
             /\ (bump_left' \/ bump_right') )
           => (Halted' /\ stop_forced')
        /\ (Halted /\ ~SampleStep /\ ~HandlerStep) => Halted'
      ]_vars

\* an emergency stop has been carried through to the top of the next cycle
C3_Witness ==
    /\ pc = "check"
    /\ stop_forced
    /\ Halted
    /\ line_calibrated

\* the frame is FORWARD without a parameter
IsForward(c) == Split(Upper(Strip(c))) = <<TxtFORWARD>>

\* C4: dispatching FORWARD while the collision is latched answers
\* ERROR:COLLISION_DETECTED and changes none of mode, wheel speeds, speed
\* magnitude, calibrated and the latch.
C4_ForwardRefused ==
    [][ (pc = "dispatch" /\ IsForward(commands[1]) /\ collision_detected)
        => /\ response' = "ERROR:COLLISION_DETECTED"
           /\ uart_tx' = Append(uart_tx, "ERROR:COLLISION_DETECTED")
           /\ UNCHANGED <<current_mode, left_speed, right_speed,
                          current_speed, line_calibrated, collision_detected>>
      ]_vars

C4_Witness ==
    /\ cmd = TxtFORWARD
    /\ response = "ERROR:COLLISION_DETECTED"
    /\ collision_detected

StopReply == "STOPPED (resuming line following)"

\* the step appends `text` to the lines written to the serial link
Writes(text) == uart_tx' = Append(uart_tx, text)

\* C5 as claimed: the reply to a STOP given in LINE_FOLLOWING is written
\* while the mode is still STOPPED, before the pause has elapsed.
C5_ReplyBeforeResume ==
    [][ Writes(StopReply) => current_mode' = MODE_STOPPED ]_vars

\* C5 amended: STOP in LINE_FOLLOWING first sets STOPPED with the motors off
\* and writes nothing; the only step that follows re-enters LINE_FOLLOWING,
\* and that same step writes the reply; no other frame is taken up in
\* between.
C5_ReplyAfterResume ==
    [][ /\ (pc = "dispatch" /\ IsStop(commands[1])
               /\ current_mode = MODE_LINE_FOLLOWING)
           => /\ pc' = "stop_sleep"
              /\ current_mode' = MODE_STOPPED
              /\ left_speed' = 0 /\ right_speed' = 0
              /\ uart_tx' = uart_tx
        /\ (pc = "stop_sleep")
           => /\ current_mode = MODE_STOPPED
              /\ left_speed = 0 /\ right_speed = 0
              /\ current_mode' = MODE_LINE_FOLLOWING
              /\ Writes(StopReply)
              /\ cmd' = cmd
              /\ UNCHANGED <<left_speed, right_speed, uart_rx>>
        /\ Writes(StopReply) => (pc = "stop_sleep" /\ cmd = TxtSTOP)
      ]_vars

C5_Witness ==
    /\ cmd = TxtSTOP
    /\ response = StopReply
    /\ current_mode = MODE_LINE_FOLLOWING
    /\ uart_tx = <<StopReply>>

\* the loop is about to read the link and finds it empty: the robot is in one
\* of the states in which a frame can come to be dispatched
Quiet == pc = "uart" /\ uart_rx = <<>>

CalOk == "LINE_SENSORS:CALIBRATED_AND_FOLLOWING"
CalFailed == "ERROR:CALIBRATION_FAILED (" \o CalFaultText \o ")"

\* the frame is LINE CALIBRATE
IsCalibrate(c) ==
    LET parts == Split(Upper(Strip(c)))
    IN  Len(parts) >= 2 /\ parts[1] = TxtLINE /\ parts[2] = TxtCALIBRATE

\* C6: a calibration run from any state ends calibrated and in
\* LINE_FOLLOWING when no sample faults, and not calibrated and STOPPED with
\* the fault's description in the response when any sample of any sweep
\* faults; the runs at boot and on LINE CALIBRATE end in one of the two.
C6_CalibrationOutcome ==
    [][ /\ Quiet =>
             \A f \in AllCalFaults :
                LET res == calibrate_line_sensors(Robot, f)
                IN  IF f = NoFault
                    THEN /\ res.r.line_calibrated
                         /\ res.r.current_mode = MODE_LINE_FOLLOWING
                         /\ res.response = CalOk
                    ELSE /\ ~res.r.line_calibrated
                         /\ res.r.current_mode = MODE_STOPPED
                         /\ res.response = CalFailed
        /\ (pc = "boot")
           => \/ line_calibrated' /\ current_mode' = MODE_LINE_FOLLOWING
              \/ ~line_calibrated' /\ current_mode' = MODE_STOPPED
        /\ (pc = "dispatch" /\ IsCalibrate(commands[1]))
           => \/ /\ line_calibrated'
                 /\ current_mode' = MODE_LINE_FOLLOWING
                 /\ response' = CalOk
              \/ /\ ~line_calibrated'
                 /\ current_mode' = MODE_STOPPED
                 /\ response' = CalFailed
      ]_vars

\* a calibration asked for by command, from a calibrated robot, has failed
C6_Witness ==
    /\ IsCalibrate(cmd)
    /\ response = CalFailed
    /\ ~line_calibrated
    /\ current_mode = MODE_STOPPED
    /\ p # 0

\* SPEED frames that carry a parameter
SpeedFrames ==
    {f \in AllFrames :
        LET parts == Split(Upper(Strip(f)))
        IN  Len(parts) = 2 /\ parts[1] = TxtSPEED}

SpeedError == "ERROR:INVALID_SPEED_LEVEL (use 1-3)"

\* the magnitude table
SpeedOf(n) ==
    IF n = 1 THEN SPEED_LEVEL_1
    ELSE IF n = 2 THEN SPEED_LEVEL_2
    ELSE SPEED_LEVEL_3

\* C7: SPEED with a parameter other than 1, 2, 3 answers
\* ERROR:INVALID_SPEED_LEVEL and changes nothing; SPEED 1, 2 or 3 changes
\* the speed magnitude to the table's value and nothing else.
C7_SpeedLevels ==
    Quiet =>
      \A f \in SpeedFrames :
         LET level == Split(Upper(Strip(f)))[2]
             res == process_command(f, Robot, EnvDefault)
         IN  /\ res.fault = ""
             /\ IF IntOk(level) /\ IntVal(level) \in 1..3
                THEN res.r = [Robot EXCEPT
                                 !.current_speed = SpeedOf(IntVal(level))]
                ELSE res.response = SpeedError /\ res.r = Robot

\* SPEED 4 has been refused with the speed above its initial value
C7_Witness ==
    /\ cmd = Join(<<TxtSPEED, <<"4">>>>)
    /\ response = SpeedError
    /\ current_speed = SPEED_LEVEL_3

\* the hardware draws tried with frame f in the properties
EdgeEnvs(f) ==
    IF BaseOf(f) = "STATUS" THEN StatusEnvs
    ELSE IF BaseOf(f) = "LINE"
    THEN {[EnvDefault EXCEPT !.cal = c] :
             c \in {c \in AllCalFaults : c.sample <= 1}}
    ELSE {EnvDefault}

\* C8: a frame in any casing is dispatched as its upper-cased form is: same
\* response (or same fault), same resulting state; and "ping" answers PONG
\* and changes nothing.
C8_CaseInsensitive ==
    Quiet =>
      /\ \A f \in AllFrames : \A env \in EdgeEnvs(f) :
            process_command(f, Robot, env)
              = process_command(Upper(f), Robot, env)
      /\ process_command(Lower(TxtPING), Robot, EnvDefault)
           = Returned(Robot, "PONG")

C8_Witness ==
    /\ cmd = Lower(TxtPING)
    /\ response = "PONG"

\* a centre reading reaches the threshold
LineSeen(v) ==
    v[2] >= LineThreshold \/ v[3] >= LineThreshold \/ v[4] >= LineThreshold

\* C9 as claimed: with a line under a centre sensor the estimate is the
\* weighted sum over the sum of the four readings line[1..4].
C9_CentroidInnerSum ==
    (steps > 0 /\ LineSeen(line)) =>
       p + LineCentre =
          (1000 * line[2] + 2000 * line[3] + 3000 * line[4] + 4000 * line[5])
             \div (line[2] + line[3] + line[4] + line[5])

\* C9 amended: the divisor is the sum of all five readings, line[0] included.
C9_CentroidAllFive ==
    (steps > 0 /\ LineSeen(line)) =>
       p + LineCentre =
          (1000 * line[2] + 2000 * line[3] + 3000 * line[4] + 4000 * line[5])
             \div (line[1] + line[2] + line[3] + line[4] + line[5])

\* a step with the outer reading line[0] high and the line under the centre
C9_Witness ==
    /\ steps > 0
    /\ line = <<ReadingMax, 0, ReadingMax, 0, 0>>
    /\ p = 1000 - LineCentre

\* C10: a controller step whose three centre readings are all below the
\* threshold sets the error to -2000 when the error before was negative and
\* to +2000 otherwise, never to the centre fallback 0; and every controller
\* step, in either branch, stores the new error as the previous error.
C10_NoLineBranch ==
    [][ (steps' = steps + 1)
        => /\ ~LineSeen(line')
              => p' = (IF p < 0 THEN 0 ELSE LineFarSide) - LineCentre
           /\ last_p' = p'
           /\ p' >= 0 - LineCentre /\ p' <= LineFarSide - LineCentre
      ]_vars

\* the all-zero vector after a negative error
C10_Witness ==
    /\ steps >= 2
    /\ line = <<0, 0, 0, 0, 0>>
    /\ p = 0 - LineCentre
    /\ last_p = p

\* the notifications that carry the robot prefix
HasRobotPrefix(e) ==
    /\ Len(e.text) >= Len(RobotPrefix)
    /\ SubSeq(e.text, 1, Len(RobotPrefix)) = RobotPrefix
RobotNotes == SelectSeq(notified, HasRobotPrefix)

\* C11: once every byte the robot wrote has been read, with the flag
\* is_connected up at each read, the notifications of robot origin are, in
\* order, one per line written, each the prefix "Robot: " and that line; the
\* last of them is the value of the TX characteristic; and every round of
\* notifications goes to the connections of the ConnectionSet.
C11_LineForwarding ==
    [][ /\ (robot_out' = <<>> /\ ~missed')
           => /\ Len(RobotNotes') = Len(robot_lines')
              /\ \A i \in 1..Len(robot_lines') :
                    RobotNotes'[i].text = RobotPrefix \o robot_lines'[i]
              /\ (bpc = "check" /\ robot_out # <<>>)
                    => tx_value' = RobotPrefix
                                     \o robot_lines'[Len(robot_lines')]
        /\ (notified' # notified)
           => notified' = Append(notified,
                                 [to |-> connections, text |-> tx_value'])
      ]_vars

\* C12: the callback of a write to the RX characteristic records the text
\* written as last_command and makes exactly one serial write: that text,
\* with one newline added exactly when the text does not end in one; and
\* no other step of the callback writes to the serial link.
C12_VerbatimForward ==
    [][ /\ (irq_pending /\ ~irq_pending')
           => /\ last_command' = rx_value
              /\ serial_writes' =
                   Append(serial_writes,
                          IF Len(rx_value) > 0 /\ rx_value[Len(rx_value)] = NL
                          THEN rx_value
                          ELSE rx_value \o <<NL>>)
        /\ (serial_writes' # serial_writes /\ serial_writes' # <<>>
               /\ bpc' = bpc)
           => (irq_pending /\ ~irq_pending')
      ]_vars

\* a text that came with its newline went out with that one newline
C12_Witness ==
    /\ ~irq_pending
    /\ rx_value = <<" ">> \o Lower(TxtSTOP) \o <<NL>>
    /\ last_command = rx_value
    /\ serial_writes = <<rx_value>>

\* C13: a sample that finds a bumper pressed with no collision latched and
\* the mode LINE_FOLLOWING leaves the mode STOPPED, whatever the wheel
\* speeds; and once the loop runs the mode leaves STOPPED only in a step of a
\* command handler.
C13_BumpStopsLineFollowing ==
    [][ /\ ( /\ SampleStep
             /\ current_mode = MODE_LINE_FOLLOWING
             /\ ~collision_detected
             /\ (bump_left' \/ bump_right') )
           => current_mode' = MODE_STOPPED
        /\ (pc # "boot" /\ current_mode = MODE_STOPPED
               /\ current_mode' # MODE_STOPPED)
           => HandlerStep
      ]_vars

\* C14: no shared field of the bridge has been written from both sides.
C14_SingleWriter == \A f \in SharedFields : Cardinality(writers[f]) <= 1

\* C15: a fault that escaped an iteration of the bridge's main loop has put
\* the bridge in the endless rapid blink.
C15_FatalOnEscape == (bridge_error = "loop") => (bpc = "fatal")

\* the step changes the mode from STOPPED or sets line_calibrated
LeavesStoppedOrCalibrates ==
    \/ current_mode = MODE_STOPPED /\ current_mode' # MODE_STOPPED
    \/ ~line_calibrated /\ line_calibrated'

\* C16 as claimed: the loop starts STOPPED at speed level 1, not calibrated,
\* nothing latched; afterwards only a command handler moves the mode from
\* STOPPED or sets line_calibrated.
C16_StartsStoppedUncalibrated ==
    [][ /\ (pc = "boot")
           => /\ pc' = "check"
              /\ current_mode' = MODE_STOPPED
              /\ current_speed' = SPEED_LEVEL_1
              /\ ~line_calibrated'
              /\ ~collision_detected'
        /\ (pc # "boot" /\ LeavesStoppedOrCalibrates) => HandlerStep
      ]_vars

\* C16 amended: the loop starts as the calibration at boot left the robot:
\* LINE_FOLLOWING and calibrated when it succeeded, STOPPED and not
\* calibrated when it failed, at speed level 1 with nothing latched in both
\* cases; afterwards only a command handler moves the mode from STOPPED or
\* sets line_calibrated.
C16_StartsAsBootCalibrationLeft ==
    [][ /\ (pc = "boot")
           => /\ pc' = "check"
              /\ current_speed' = SPEED_LEVEL_1
              /\ ~collision_detected'
              /\ \E fault \in CalFaults :
                    IF fault = NoFault
                    THEN /\ current_mode' = MODE_LINE_FOLLOWING
                         /\ line_calibrated'
                    ELSE /\ current_mode' = MODE_STOPPED
                         /\ ~line_calibrated'
        /\ (pc # "boot" /\ LeavesStoppedOrCalibrates) => HandlerStep
      ]_vars

\* the first cycle is about to begin after a good calibration at boot
C16_Witness ==
    /\ pc = "check"
    /\ uart_tx = <<"ROBOT_READY_AND_FOLLOWING">>
    /\ current_mode = MODE_LINE_FOLLOWING
    /\ line_calibrated
    /\ current_speed = SPEED_LEVEL_1
    /\ ~collision_detected

\* the test the loop makes before it calls follow_line()
MayFollow ==
    current_mode = MODE_LINE_FOLLOWING /\ line_calibrated
      /\ ~collision_detected

\* C17: in a cycle the sample comes first, the reads and dispatches next,
\* the controller step after them; the controller step sets the wheel
\* speeds by follow_line when the test holds at that point and otherwise
\* changes none of the wheel speeds, the error and the previous error; and
\* the previous error changes in no other step.
C17_CycleOrder ==
    [][ /\ (pc' = "uart") => (pc = "check")
        /\ (pc' \in {"dispatch", "stop_sleep"})
           => (pc \in {"uart", "dispatch"})
        /\ (pc' = "follow") => (pc \in {"uart", "dispatch", "stop_sleep"})
        /\ (pc = "follow") => (pc' = "status")
        /\ (pc' = "status") => (pc = "follow")
        /\ (pc = "follow" /\ MayFollow)
           => \E v \in LoopReadings :
                 LET out == follow_line(v, p, last_p, current_speed)
                 IN  /\ left_speed' = out.left
                     /\ right_speed' = out.right
                     /\ last_p' = out.last_p
        /\ (pc = "follow" /\ ~MayFollow)
           => UNCHANGED <<left_speed, right_speed, p, last_p>>
        /\ (pc # "follow") => UNCHANGED <<p, last_p, line>>
      ]_vars

\* LINE START was dispatched and the controller ran in the same cycle
C17_Witness ==
    /\ pc = "status"
    /\ cmd = Join(<<TxtLINE, TxtSTART>>)
    /\ response = "LINE_FOLLOWING:STARTED"
    /\ current_mode = MODE_LINE_FOLLOWING
    /\ left_speed = 0
    /\ right_speed = current_speed
    /\ p < 0

Clamp(x, lo, hi) == IF x < lo THEN lo ELSE IF x > hi THEN hi ELSE x

\* C18: after a controller step with new error e, d = e - previous error
\* and pid = 15*e + 300*d, the wheel speeds are clamp(base + pid, 0, base)
\* and clamp(base - pid, 0, base), base being the speed magnitude, and so lie
\* in 0..base.
C18_WheelClamp ==
    [][ (steps' = steps + 1)
        => LET e == p'
               d == e - last_p
               pid == 15 * e + 300 * d
               base == current_speed
           IN  /\ left_speed' = Clamp(base + pid, 0, base)
               /\ right_speed' = Clamp(base - pid, 0, base)
               /\ left_speed' \in 0..base
               /\ right_speed' \in 0..base
      ]_vars

\* a step has left one wheel between the two ends of the range
C18_Witness ==
    /\ steps > 0
    /\ left_speed > 0
    /\ left_speed < current_speed
    /\ right_speed = current_speed

\* the complete frames among `bytes` that are not blank, stripped, in order
NonBlankFrames(bytes) ==
    LET cs == SplitLines(bytes)
        full == SelectSeq(SubSeq(cs, 1, Len(cs) - 1),
                          LAMBDA f : Strip(f) # <<>>)
    IN  [i \in 1..Len(full) |-> Strip(full[i])]

\* C19: once everything sent has been read and walked, every complete
\* non-blank frame sent has been handed to process_command, in the order
\* sent; a frame handed over has its response written in the same step, or,
\* blocked in cmd_stop, in the step that ends the pause; and a dispatch
\* writes no line but these.
C19_OneResponsePerFrame ==
    [][ /\ (pc' = "follow" /\ uart_rx' = <<>>)
           => handed' = NonBlankFrames(sent')
        /\ (handed' # handed)
           => \/ pc' = "stop_sleep" /\ uart_tx' = uart_tx
              \/ response' # "" /\ Writes(response')
        /\ (pc = "stop_sleep") => (response' # "" /\ Writes(response'))
        /\ (pc \in {"uart", "dispatch"} /\ uart_tx' # uart_tx)
           => handed' # handed
      ]_vars

\* C20: the flag is_connected is up exactly when the ConnectionSet holds a
\* connection.
C20_FlagTracksSet == is_connected <=> (connections # {})

\* C21: in every state the mode LINE_FOLLOWING goes with line_calibrated.
C21_FollowingImpliesCalibrated ==
    (current_mode = MODE_LINE_FOLLOWING) => line_calibrated

\* LINE START has put a calibrated robot, stopped by a collision that is
\* still latched, back into LINE_FOLLOWING
C21_Witness ==
    /\ pc = "follow"
    /\ cmd = Join(<<TxtLINE, TxtSTART>>)
    /\ response = "LINE_FOLLOWING:STARTED"
    /\ current_mode = MODE_LINE_FOLLOWING
    /\ line_calibrated
    /\ collision_detected

\* C22: whenever no command handler is in the middle of its run, the mode
\* STOPPED goes with both wheel speeds at 0.
C22_StoppedMeansMotorsOff ==
    (pc # "stop_sleep" /\ current_mode = MODE_STOPPED)
       => (left_speed = 0 /\ right_speed = 0)

\* C23: at the end of a cycle, with the collision latched, the two wheel
\* speeds are not both positive.
C23_NoForwardWhileLatched ==
    (pc = "check" /\ collision_detected)
       => ~(left_speed > 0 /\ right_speed > 0)

\* a cycle has ended with the collision latched and the robot turning on the
\* spot in manual mode
C23_Witness ==
    /\ pc = "check"
    /\ collision_detected
    /\ current_mode = MODE_MANUAL
    /\ left_speed < 0
    /\ right_speed > 0

=============================================================================
